---- MODULE Spec2Model ----
(***************************************************************************)
(* memo_cache<Key, Val, Size> of include/memo_cache.hpp: a fixed-size      *)
(* key/value cache.  The buffer is an array of Size slots, each a key and  *)
(* an optional value; the cursor is the index of the slot the next         *)
(* new-key insertion overwrites.                                           *)
(*                                                                         *)
(* std::optional<V> is modelled as a sequence of length 0 (nullopt) or 1.  *)
(***************************************************************************)
EXTENDS Integers, Sequences, FiniteSets, TLC

\* Largest template argument Size the model instantiates the cache with.
MaxSize == 2
\* Number of distinct non-default values of the value type.
MaxVal == 2

\* Key{}: the value-initialised key an unoccupied slot holds.
DefaultKey == 0
\* The key type: one key more than the largest capacity, so a full cache can
\* always be offered a new key.
Keys == 0..MaxSize
\* The value type.
Vals == 1..MaxVal
\* The callbacks handed to find_or_insert_with: deterministic functions of the key.
ComputeFns == { [k \in Keys |-> (k % MaxVal) + 1], [k \in Keys |-> MaxVal - (k % MaxVal)] }

\* The largest Size the second static_assert accepts.
SizeLimit == 128
\* The instantiations a program may ask for: 0, the small sizes, and one past the limit.
RequestedSizes == (0..MaxSize) \cup {SizeLimit + 1}

\* Variant of the static assertions without the lower limit.
static_assert_nonzero_missing(s) == s <= SizeLimit

\* static_assert(Size > 0); static_assert(Size <= 128).
static_assert(s) == s > 0 /\ s <= SizeLimit

VARIABLES
  Size,     \* the template argument Size (fixed at construction)
  buffer,   \* buffer_t buffer: [0..Size-1 -> key_value_slot_t]
  cursor,   \* std::size_t cursor
  last,     \* the call that produced this state: its name, arguments and result
  calls,    \* the arguments compute was invoked with during the last call
  order,    \* history: the occupied slots, oldest new-key insertion first
  age,      \* history: per slot, the new-key insertions since the slot was written
  hist,     \* history: the keys inserted since construction while `pristine`
  pristine, \* TRUE while the only mutating calls since construction were insert() of new keys
  flagged   \* a cache of the variant whose slots carry an `empty` flag

vars == <<Size, buffer, cursor, last, calls, order, age, hist, pristine, flagged>>


\* key_value_slot_t value-initialised: default key, empty optional.
EmptySlot == [key |-> DefaultKey, val |-> <<>>]

Indices == 0..(Size - 1)

\* Variant of the predicate that compares the key of an unoccupied slot too.
Matches_keyonly(fSlot, key) == fSlot.key = key

\* The predicate of find and contains: fSlot.val && (fSlot.key == key).
Matches(fSlot, key) == (fSlot.val # <<>>) /\ (fSlot.key = key)

\* std::ranges::find_if over the buffer: the first matching index, or Size (cend).
find_if(buf, key) ==
  IF \E i \in DOMAIN buf : Matches(buf[i], key)
  THEN CHOOSE i \in DOMAIN buf : Matches(buf[i], key) /\ \A j \in DOMAIN buf : Matches(buf[j], key) => i <= j
  ELSE Size

\* find over an explicit buffer: the optional value of the first matching slot.
find_in(buf, key) ==
  IF find_if(buf, key) # Size THEN buf[find_if(buf, key)].val ELSE <<>>

\* memo_cache::find(key): optional reference to the value.
find(key) == find_in(buffer, key)

\* Variant of contains whose predicate forgets the occupancy test.
contains_in_keyonly(buf, key) == \E i \in DOMAIN buf : buf[i].key = key

\* contains over an explicit buffer: std::ranges::any_of with the same predicate.
contains_in(buf, key) == \E i \in DOMAIN buf : Matches(buf[i], key)

\* memo_cache::contains(key).
contains(key) == contains_in(buffer, key)

\* Variant of size that reports the number of occupied slots.
size_occupied == Cardinality({ i \in DOMAIN buffer : buffer[i].val # <<>> })

\* memo_cache::size().
size == Size

\* History kept next to replace_and_shift: the slot just written becomes the newest.
Newest(ord, i) == Append(SelectSeq(ord, LAMBDA j : j # i), i)

\* History kept next to replace_and_shift: the slot just written has seen no
\* insertion; every other occupied slot has seen one more (counted up to Size + 1).
Aged(a, buf, i) ==
  [j \in DOMAIN a |->
     IF j = i THEN 0
     ELSE IF buf[j].val # <<>> THEN (IF a[j] < Size + 1 THEN a[j] + 1 ELSE a[j])
     ELSE 0]

\* Variant of replace_and_shift that forgets to advance the cursor.
replace_and_shift_noshift(key, val) ==
  /\ buffer' = [buffer EXCEPT ![cursor] = [key |-> key, val |-> <<val>>]]
  /\ cursor' = cursor

\* Variant of replace_and_shift that advances without wrapping and writes past the end.
replace_and_shift_nowrap(key, val) ==
  /\ buffer' = [i \in (DOMAIN buffer) \cup {cursor} |->
                  IF i = cursor THEN [key |-> key, val |-> <<val>>] ELSE buffer[i]]
  /\ cursor' = cursor + 1

\* memo_cache::replace_and_shift(key, val): write the slot under the cursor, advance.
replace_and_shift(key, val) ==
  /\ buffer' = [buffer EXCEPT ![cursor] = [key |-> key, val |-> <<val>>]]
  /\ cursor' = (cursor + 1) % Size

\* Variant of the update path that promotes on a hit by moving the cursor.
insert_update_shift(key, val) ==
  /\ buffer' = [buffer EXCEPT ![find_if(buffer, key)].val = <<val>>]
  /\ cursor' = (cursor + 1) % Size

\* Variant of the update path that assigns to a copy instead of the reference.
insert_update_noop(key, val) ==
  /\ buffer' = buffer
  /\ cursor' = cursor

\* insert on a present key: overwrite the value through the found reference.
insert_update(key, val) ==
  /\ buffer' = [buffer EXCEPT ![find_if(buffer, key)].val = <<val>>]
  /\ cursor' = cursor

\* Variant of insert without the lookup for an identical key.
Insert_nocheck(key, val) ==
  /\ replace_and_shift(key, val)
  /\ order' = Newest(order, cursor)
  /\ age' = Aged(age, buffer, cursor)
  /\ hist' = <<>>
  /\ pristine' = FALSE
  /\ last' = [op |-> "insert", key |-> key, val |-> val, found |-> find(key)]
  /\ calls' = <<>>
  /\ UNCHANGED Size

\* memo_cache::insert(key, val).
Insert(key, val) ==
  /\ IF find(key) # <<>>
     THEN /\ insert_update(key, val)
          /\ order' = order
          /\ age' = age
          /\ hist' = <<>>
          /\ pristine' = FALSE
     ELSE /\ replace_and_shift(key, val)
          /\ order' = Newest(order, cursor)
          /\ age' = Aged(age, buffer, cursor)
          /\ IF pristine /\ Len(hist) <= Size
             THEN hist' = Append(hist, key) /\ pristine' = TRUE
             ELSE hist' = <<>> /\ pristine' = FALSE
  /\ last' = [op |-> "insert", key |-> key, val |-> val, found |-> find(key)]
  /\ calls' = <<>>
  /\ UNCHANGED Size

\* Variant of find that promotes the entry it hits by moving the cursor past it.
Find_promote(key) ==
  /\ last' = [op |-> "find", key |-> key, ret |-> find(key), slot |-> find_if(buffer, key)]
  /\ calls' = <<>>
  /\ cursor' = IF find(key) # <<>> THEN (find_if(buffer, key) + 1) % Size ELSE cursor
  /\ UNCHANGED <<Size, buffer, order, age, hist, pristine>>

\* memo_cache::find(key) as a call.
Find(key) ==
  /\ last' = [op |-> "find", key |-> key, ret |-> find(key), slot |-> find_if(buffer, key)]
  /\ calls' = <<>>
  /\ UNCHANGED <<Size, buffer, cursor, order, age, hist, pristine>>

\* memo_cache::contains(key) as a call.
Contains(key) ==
  /\ last' = [op |-> "contains", key |-> key, ret |-> contains(key)]
  /\ calls' = <<>>
  /\ UNCHANGED <<Size, buffer, cursor, order, age, hist, pristine>>

\* memo_cache::size() as a call.
SizeCall ==
  /\ last' = [op |-> "size", ret |-> size]
  /\ calls' = <<>>
  /\ UNCHANGED <<Size, buffer, cursor, order, age, hist, pristine>>

\* Variant of find_or_insert_with that takes the returned reference after the shift.
FindOrInsertWith_refAfterShift(key, f) ==
  /\ IF find(key) # <<>>
     THEN /\ UNCHANGED <<buffer, cursor, order, age, hist, pristine>>
          /\ calls' = <<>>
          /\ last' = [op |-> "find_or_insert_with", key |-> key, f |-> f, ret |-> find(key),
                   slot |-> find_if(buffer, key)]
     ELSE /\ replace_and_shift(key, f[key])
          /\ calls' = <<key>>
          /\ order' = Newest(order, cursor)
          /\ age' = Aged(age, buffer, cursor)
          /\ hist' = <<>>
          /\ pristine' = FALSE
          /\ last' = [op |-> "find_or_insert_with", key |-> key, f |-> f, ret |-> buffer'[cursor'].val,
                   slot |-> cursor']
  /\ UNCHANGED Size

\* Variant of find_or_insert_with that computes and inserts without looking the key up.
FindOrInsertWith_nofind(key, f) ==
  /\ replace_and_shift(key, f[key])
  /\ calls' = <<key>>
  /\ order' = Newest(order, cursor)
  /\ age' = Aged(age, buffer, cursor)
  /\ hist' = <<>>
  /\ pristine' = FALSE
  /\ last' = [op |-> "find_or_insert_with", key |-> key, f |-> f, ret |-> buffer'[cursor].val,
                   slot |-> cursor]
  /\ UNCHANGED Size

\* memo_cache::find_or_insert_with(key, f).
FindOrInsertWith(key, f) ==
  /\ IF find(key) # <<>>
     THEN /\ UNCHANGED <<buffer, cursor, order, age, hist, pristine>>
          /\ calls' = <<>>
          /\ last' = [op |-> "find_or_insert_with", key |-> key, f |-> f, ret |-> find(key),
                   slot |-> find_if(buffer, key)]
     ELSE /\ replace_and_shift(key, f[key])
          /\ calls' = <<key>>
          /\ order' = Newest(order, cursor)
          /\ age' = Aged(age, buffer, cursor)
          /\ hist' = <<>>
          /\ pristine' = FALSE
          /\ last' = [op |-> "find_or_insert_with", key |-> key, f |-> f, ret |-> buffer'[cursor].val,
                   slot |-> cursor]
  /\ UNCHANGED Size

\* Variant of clear that leaves the first slot as it is.
clear_buffer_partial == [i \in Indices |-> IF i = 0 THEN buffer[i] ELSE EmptySlot]

\* The assignment of memo_cache::clear(): buffer = {}.
clear_buffer == [i \in Indices |-> EmptySlot]

\* Variant of clear that also resets the cursor.
Clear_reset ==
  /\ buffer' = clear_buffer
  /\ cursor' = 0
  /\ order' = <<>>
  /\ age' = [i \in Indices |-> 0]
  /\ hist' = <<>>
  /\ pristine' = FALSE
  /\ last' = [op |-> "clear"]
  /\ calls' = <<>>
  /\ UNCHANGED Size

\* memo_cache::clear() as a call; the cursor is not assigned.
Clear ==
  /\ buffer' = clear_buffer
  /\ cursor' = cursor
  /\ order' = <<>>
  /\ age' = [i \in Indices |-> 0]
  /\ hist' = <<>>
  /\ pristine' = FALSE
  /\ last' = [op |-> "clear"]
  /\ calls' = <<>>
  /\ UNCHANGED Size

\* The slots and the cursor of a memo_cache object right after construction.
constructed == [buffer |-> [i \in Indices |-> EmptySlot], cursor |-> 0]

\* The variant with the `empty` flag: V val next to K key, bool empty = true.
\* The value a value-initialised V holds.
DefaultVal == 0

\* A cache of the flag variant right after construction: every slot empty;
\* key and val of a slot hold what value-initialisation gives (k = DefaultKey,
\* v = DefaultVal) or, default-initialised, whatever was in memory (k, v).
flagged_constructed(k, v) ==
  [buffer |-> [i \in Indices |-> [key |-> k, val |-> v, empty |-> TRUE]], cursor |-> 0]

\* A freshly constructed cache: every slot value-initialised, cursor{}.  Only
\* instantiations that pass the static assertions exist.
Construct ==
  /\ Size \in { s \in RequestedSizes : static_assert(s) }
  /\ buffer = [i \in 0..(Size - 1) |-> EmptySlot]
  /\ cursor = 0
  /\ last = [op |-> "construct"]
  /\ calls = <<>>
  /\ order = <<>>
  /\ age = [i \in 0..(Size - 1) |-> 0]
  /\ hist = <<>>
  /\ pristine = TRUE

\* The cache under study next to a flag-variant cache that no call touches.
Init ==
  /\ Construct
  /\ flagged = flagged_constructed(DefaultKey, DefaultVal)

Next ==
  \/ \E key \in Keys, val \in Vals : Insert(key, val) /\ UNCHANGED flagged
  \/ \E key \in Keys : Find(key) /\ UNCHANGED flagged
  \/ \E key \in Keys : Contains(key) /\ UNCHANGED flagged
  \/ SizeCall /\ UNCHANGED flagged
  \/ \E key \in Keys, f \in ComputeFns : FindOrInsertWith(key, f) /\ UNCHANGED flagged
  \/ Clear /\ UNCHANGED flagged

Spec == Init /\ [][Next]_vars

----
\* A reference returned by find or find_or_insert_with is a reference to the
\* value inside one slot's optional; the model names it by the index of that
\* slot (`slot` in the record of the call).  The caller may keep it and assign
\* through it later.

\* An assignment through a reference into slot i.  While the optional of the
\* slot is engaged the assignment lands in that slot, whichever key the slot
\* holds by now.  A write through a reference into a disengaged optional
\* (after clear()) has no defined behaviour and is left out.
WriteRef(i, val) ==
  /\ buffer[i].val # <<>>
  /\ buffer' = [buffer EXCEPT ![i].val = <<val>>]
  /\ last' = [op |-> "write_ref", slot |-> i, val |-> val]
  /\ calls' = <<>>
  /\ hist' = <<>>
  /\ pristine' = FALSE
  /\ UNCHANGED <<Size, cursor, order, age>>

NextRef ==
  \/ \E key \in Keys, val \in Vals : Insert(key, val) /\ UNCHANGED flagged
  \/ \E key \in Keys : Find(key) /\ UNCHANGED flagged
  \/ \E key \in Keys : Contains(key) /\ UNCHANGED flagged
  \/ SizeCall /\ UNCHANGED flagged
  \/ \E key \in Keys, f \in ComputeFns : FindOrInsertWith(key, f) /\ UNCHANGED flagged
  \/ Clear /\ UNCHANGED flagged
  \/ \E i \in Indices, val \in Vals : WriteRef(i, val) /\ UNCHANGED flagged

SpecRef == Init /\ [][NextRef]_vars

----
\* Helpers for the properties.

Occupied(buf) == { i \in DOMAIN buf : buf[i].val # <<>> }

Full == Occupied(buffer) = Indices

\* The step is a call of insert or find_or_insert_with with a key that is absent.
NewKeyStep ==
  /\ last'.op \in {"insert", "find_or_insert_with"}
  /\ ~contains(last'.key)

\* The step is a find, a contains, a find_or_insert_with hit or an update-insert.
HitOrReadStep ==
  \/ last'.op \in {"find", "contains"}
  \/ /\ last'.op \in {"insert", "find_or_insert_with"}
     /\ contains(last'.key)

\* The keys of a sequence are pairwise distinct.
Distinct(seq) == Cardinality({ seq[i] : i \in 1..Len(seq) }) = Len(seq)

----
\* C1: FIFO eviction from a fresh cache.  After insert() of Size pairwise
\* distinct keys into a freshly constructed cache all of them are found;
\* after one more distinct key the first-inserted key is absent and the
\* other Size - 1 earlier keys and the new key are found.
C1_FifoFromFresh ==
  (pristine /\ Distinct(hist)) =>
    /\ Len(hist) <= Size => \A i \in 1..Len(hist) : contains(hist[i]) /\ find(hist[i]) # <<>>
    /\ Len(hist) = Size + 1 =>
         /\ ~contains(hist[1]) /\ find(hist[1]) = <<>>
         /\ \A i \in 2..(Size + 1) : contains(hist[i]) /\ find(hist[i]) # <<>>

C1_Witness ==
  pristine /\ Distinct(hist) /\ Size = MaxSize /\ Len(hist) = Size + 1

\* C2: eviction order is by insertion order only.  In a full cache a new-key
\* insertion removes exactly the entry whose new-key insertion is the
\* earliest; a find, contains, find_or_insert_with hit or update-insert does
\* not change which entry is evicted next.
C2_EvictionByInsertionOrder ==
  [][ /\ (Full /\ NewKeyStep) =>
           /\ ~contains_in(buffer', buffer[Head(order)].key)
           /\ \A i \in Indices \ {Head(order)} : buffer'[i] = buffer[i]
      /\ HitOrReadStep =>
           /\ cursor' = cursor
           /\ buffer'[cursor].key = buffer[cursor].key
           /\ Occupied(buffer') = Occupied(buffer)
           /\ Full => cursor = Head(order)
    ]_vars

C2_Witness ==
  /\ Full /\ Size = MaxSize /\ cursor # 0 /\ cursor = Head(order)
  /\ last.op = "insert" /\ last.key = buffer[cursor].key /\ ~pristine /\ hist = <<>>
  /\ buffer[cursor].val = <<last.val>>

\* C3: insert-then-find round trip.  In every state reached by insert(k, v),
\* from a full cache or not, find(k) returns v and contains(k) is true.
C3_InsertThenFind ==
  last.op = "insert" => (find(last.key) = <<last.val>> /\ contains(last.key))

C3_Witness ==
  last.op = "insert" /\ Full /\ Size = MaxSize /\ find(last.key) = <<last.val>>

\* C4: update semantics.  insert(k, v2) on a present key changes only the
\* value stored for k; the cursor, the occupied slots and the key and value
\* of every other slot are unchanged, and nothing is evicted.
C4_UpdateInPlace ==
  [][ (last'.op = "insert" /\ contains(last'.key)) =>
        /\ cursor' = cursor
        /\ Occupied(buffer') = Occupied(buffer)
        /\ \A i \in Indices : buffer'[i].key = buffer[i].key
        /\ \A i \in Indices : buffer[i].key # last'.key => buffer'[i] = buffer[i]
        /\ find_in(buffer', last'.key) = <<last'.val>>
        /\ \A k \in Keys : contains(k) => contains_in(buffer', k)
    ]_vars

C4_Witness ==
  /\ last.op = "insert" /\ Full /\ Size = MaxSize /\ order # <<>>
  /\ last.key # buffer[order[Len(order)]].key
  /\ find(last.key) = <<last.val>> /\ ~pristine

\* C5: find_or_insert_with miss path.  On an absent key k, compute is invoked
\* exactly once, with k; (k, compute(k)) is stored as a new entry; the stored
\* value is returned; and find(k) returns compute(k) afterwards.
C5_FindOrInsertWithMiss ==
  [][ (last'.op = "find_or_insert_with" /\ ~contains(last'.key)) =>
        /\ calls' = <<last'.key>>
        /\ buffer'[cursor] = [key |-> last'.key, val |-> <<last'.f[last'.key]>>]
        /\ \A i \in Indices \ {cursor} : buffer'[i] = buffer[i]
        /\ last'.ret = <<last'.f[last'.key]>>
        /\ find_in(buffer', last'.key) = <<last'.f[last'.key]>>
    ]_vars

C5_Witness ==
  /\ last.op = "find_or_insert_with" /\ calls = <<last.key>>
  /\ Full /\ Size = MaxSize /\ last.ret = <<last.f[last.key]>>

\* C6: find_or_insert_with hit path.  On a present key k, compute is not
\* invoked, the value stored for k is returned, and every slot and the cursor
\* are unchanged.
C6_FindOrInsertWithHit ==
  [][ (last'.op = "find_or_insert_with" /\ contains(last'.key)) =>
        /\ calls' = <<>>
        /\ last'.ret = find(last'.key)
        /\ buffer' = buffer
        /\ cursor' = cursor
    ]_vars

C6_Witness ==
  /\ last.op = "find_or_insert_with" /\ calls = <<>>
  /\ last.ret # <<>> /\ last.ret # <<last.f[last.key]>>

\* C7: clear() empties the cache.  In every state reached by clear(), find(k)
\* is empty and contains(k) is false for every key k, and size() is the
\* capacity the cache was constructed with.
C7_ClearEmpties ==
  last.op = "clear" =>
    /\ \A k \in Keys : find(k) = <<>> /\ ~contains(k)
    /\ size = Cardinality(DOMAIN buffer)

C7_Witness ==
  last.op = "clear" /\ cursor # 0 /\ Size = MaxSize

\* C8 as stated: after clear() the cursor equals 0.
C8_Original ==
  last.op = "clear" => cursor = 0

\* C8 amended: clear() leaves the cursor where it was; the next new-key
\* insertion is written to the slot the cursor designated before the call,
\* which clear() has emptied.
C8_ClearKeepsCursor ==
  [][ last'.op = "clear" => (cursor' = cursor /\ buffer'[cursor'].val = <<>>) ]_vars

C8_Witness ==
  last.op = "clear" /\ cursor = Size - 1 /\ Size = MaxSize

\* C9: no duplicate keys.  In every reachable state at most one occupied slot
\* holds any given key.
C9_NoDuplicateKeys ==
  \A i, j \in Occupied(buffer) : buffer[i].key = buffer[j].key => i = j

C9_Witness ==
  /\ Full /\ Size = MaxSize /\ last.op = "find_or_insert_with" /\ calls # <<>>
  /\ cursor # 0

\* C10: cursor points at the oldest.  In every reachable state the slot at
\* the cursor is unoccupied or holds the entry whose new-key insertion is the
\* earliest among the entries present.
C10_CursorAtOldest ==
  \/ buffer[cursor].val = <<>>
  \/ order # <<>> /\ cursor = Head(order)

C10_Witness ==
  /\ Full /\ Size = MaxSize /\ cursor = 1 /\ Head(order) = 1
  /\ last.op = "insert" /\ last.key = buffer[0].key

\* C11: exact retention window.  With no clear() in between, an entry created
\* by a new-key insertion survives each of the next Size - 1 new-key
\* insertions and is gone after the Size-th; finds, contains, hits of
\* find_or_insert_with and update-inserts in between neither remove an entry
\* nor count towards the window.
C11_RetentionWindow ==
  [][ /\ NewKeyStep =>
           \A i \in Occupied(buffer) :
             /\ age[i] < Size - 1 => (buffer'[i] = buffer[i] /\ contains_in(buffer', buffer[i].key))
             /\ age[i] = Size - 1 => ~contains_in(buffer', buffer[i].key)
             /\ age[i] <= Size - 1
      /\ HitOrReadStep =>
           \A i \in Occupied(buffer) :
             /\ i \in Occupied(buffer') /\ buffer'[i].key = buffer[i].key
             /\ age'[i] = age[i]
    ]_vars

C11_Witness ==
  /\ Size = MaxSize /\ Full /\ last.op = "find_or_insert_with" /\ calls # <<>>
  /\ \E i \in Indices : age[i] = Size - 1
  /\ \E i \in Indices : age[i] = 0 /\ buffer[i].key = last.key /\ i = Size - 1

\* C12: re-inserting an identical pair is a no-op.  insert(k, v) on a cache
\* that holds k with value v leaves every slot and the cursor unchanged.
C12_ReinsertIsNoOp ==
  [][ (last'.op = "insert" /\ find(last'.key) = <<last'.val>>) =>
        (buffer' = buffer /\ cursor' = cursor)
    ]_vars

C12_Witness ==
  /\ last.op = "insert" /\ last.found = <<last.val>> /\ Size = MaxSize /\ Full
  /\ find(last.key) = <<last.val>>

\* C13: contains agrees with find.  In every reachable state, for every key
\* (the default key included), contains(k) holds exactly when find(k) is
\* non-empty.
C13_ContainsAgreesWithFind ==
  \A k \in Keys : contains(k) <=> (find(k) # <<>>)

C13_Witness ==
  /\ last.op = "contains" /\ last.ret = TRUE /\ find(last.key) # <<>>
  /\ ~contains(DefaultKey) /\ \E i \in Indices : buffer[i] = EmptySlot

\* C14: read operations are pure.  find, contains and size, on a hit or a
\* miss, leave every slot and the cursor unchanged; a step that changes a slot
\* or the cursor is an insert, a find_or_insert_with miss or a clear.
C14_ReadsArePure ==
  [][ /\ last'.op \in {"find", "contains", "size"} =>
           (buffer' = buffer /\ cursor' = cursor)
      /\ (buffer' # buffer \/ cursor' # cursor) =>
           \/ last'.op \in {"insert", "clear"}
           \/ last'.op = "find_or_insert_with" /\ ~contains(last'.key)
    ]_vars

C14_Witness ==
  /\ last.op = "find" /\ last.ret # <<>> /\ Full /\ Size = MaxSize /\ cursor # 0
  /\ buffer[cursor].key # last.key

\* C15: size() is the fixed capacity.  In every reachable state size() is the
\* number of slots the cache was constructed with, whatever the number of
\* occupied slots, and no call changes it.
C15_SizeIsCapacity ==
  /\ [](/\ size = Cardinality(DOMAIN buffer)
        /\ last.op = "size" => last.ret = Cardinality(DOMAIN buffer))
  /\ [][size' = size]_vars

C15_Witness ==
  /\ last.op = "size" /\ last.ret = MaxSize
  /\ Cardinality(Occupied(buffer)) = 1 /\ cursor = 0 /\ ~pristine

\* C16: a freshly constructed cache is empty.  For every capacity and every
\* key, the default key of the pre-allocated slots included, find is empty
\* and contains is false before any insertion.
C16_FreshIsEmpty ==
  (pristine /\ hist = <<>>) =>
    /\ \A k \in Keys : find(k) = <<>> /\ ~contains(k)
    /\ last.op = "find" => last.ret = <<>>
    /\ last.op = "contains" => last.ret = FALSE

C16_Witness ==
  /\ pristine /\ hist = <<>> /\ Size = MaxSize
  /\ last.op = "contains" /\ last.key = DefaultKey

\* C17: cursor range.  In every reachable state 0 <= cursor < Size.
C17_CursorInRange ==
  0 <= cursor /\ cursor < size

C17_Witness ==
  /\ cursor = 0 /\ Full /\ Size = MaxSize
  /\ last.op = "insert" /\ last.found = <<>> /\ buffer[Size - 1].key = last.key

\* C18: bounded occupancy.  In every reachable state the buffer has exactly
\* Size slots, and the number of occupied slots, which is the number of keys
\* contains() reports, is at most Size.
C18_BoundedOccupancy ==
  /\ DOMAIN buffer = 0..(Size - 1)
  /\ Cardinality(Occupied(buffer)) <= Size
  /\ Cardinality({ k \in Keys : contains(k) }) = Cardinality(Occupied(buffer))

C18_Witness ==
  /\ Full /\ Size = MaxSize /\ cursor = 1 /\ age[0] = 0
  /\ last.op = "insert" /\ last.found = <<>> /\ pristine /\ Len(hist) = Size + 1

\* C19: returned references alias cache storage.  The reference returned by
\* find(k) or find_or_insert_with(k, f) designates the slot that holds k; a
\* write through a reference to a slot that holds k changes what find(k)
\* returns and nothing else; such a reference keeps designating k's value
\* across find, contains and size; after a new-key insertion that overwrites
\* its slot, or after clear(), the slot no longer holds k.
C19_ReferencesAliasStorage ==
  [][ /\ (last'.op \in {"find", "find_or_insert_with"} /\ last'.ret # <<>>) =>
           /\ last'.slot \in Indices
           /\ Matches(buffer'[last'.slot], last'.key)
           /\ last'.ret = buffer'[last'.slot].val
      /\ last'.op = "write_ref" =>
           /\ find_in(buffer', buffer[last'.slot].key) = <<last'.val>>
           /\ \A i \in Indices \ {last'.slot} : buffer'[i] = buffer[i]
           /\ buffer'[last'.slot].key = buffer[last'.slot].key
           /\ cursor' = cursor
      /\ \A i \in Occupied(buffer) :
           /\ last'.op \in {"find", "contains", "size"} => buffer'[i] = buffer[i]
           /\ (NewKeyStep /\ cursor = i) => ~Matches(buffer'[i], buffer[i].key)
           /\ last'.op = "clear" => ~Matches(buffer'[i], buffer[i].key)
    ]_vars

C19_Witness ==
  /\ last.op = "write_ref" /\ Size = MaxSize /\ Full
  /\ last.slot = cursor /\ buffer[last.slot].val = <<last.val>>
  /\ find(buffer[last.slot].key) = <<last.val>>

\* C20: configuration errors are rejected at construction.  No cache exists,
\* and so no operation runs, with a capacity outside 1..128.
C20_CapacityWithinLimits ==
  /\ 1 <= Size /\ Size <= SizeLimit
  /\ Cardinality(DOMAIN buffer) = Size

C20_Witness ==
  last.op = "insert" /\ Size = 1 /\ Full /\ last.found = <<>> /\ ~pristine

\* C21: new-key insertion step.  When key k is absent, insert(k, v) and the
\* miss path of find_or_insert_with write (k, v), occupied, into the slot at
\* the cursor of the state before the call, leave every other slot unchanged
\* and set the cursor to (old cursor + 1) mod Size.
C21_NewKeyInsertionStep ==
  [][ NewKeyStep =>
        LET v == IF last'.op = "insert" THEN last'.val ELSE last'.f[last'.key] IN
        /\ buffer'[cursor].key = last'.key
        /\ buffer'[cursor].val = <<v>>
        /\ \A i \in Indices \ {cursor} : buffer'[i] = buffer[i]
        /\ DOMAIN buffer' = Indices
        /\ cursor' = (cursor + 1) % Size
    ]_vars

C21_Witness ==
  /\ last.op = "find_or_insert_with" /\ calls = <<last.key>>
  /\ Size = MaxSize /\ cursor = 0 /\ ~pristine
  /\ buffer[Size - 1] = [key |-> last.key, val |-> <<last.f[last.key]>>]
  /\ Occupied(buffer) = Indices \ {0}

\* C22: eviction happens only when full.  In every reachable state, also
\* after clear() was called with a non-zero cursor, the slot at the cursor is
\* occupied exactly when all Size slots are occupied; so a new-key insertion
\* into a cache that is not full keeps every entry and raises the number of
\* occupied slots by one.
C22_EvictionOnlyWhenFull ==
  /\ [](buffer[cursor].val # <<>> <=> Full)
  /\ [][ (NewKeyStep /\ ~Full) =>
           /\ \A k \in Keys : contains(k) => find_in(buffer', k) = find(k)
           /\ Cardinality(Occupied(buffer')) = Cardinality(Occupied(buffer)) + 1
       ]_vars

C22_Witness ==
  /\ Size = MaxSize /\ cursor = 0 /\ Occupied(buffer) = {Size - 1}
  /\ last.op = "insert" /\ last.found = <<>>
  /\ buffer[Size - 1] = [key |-> last.key, val |-> <<last.val>>]

\* C25: occupied slots are circularly contiguous behind the cursor.  In every
\* reachable state with n occupied slots, the occupied slots are those at
\* (cursor - n) mod Size through (cursor - 1) mod Size, in this order from the
\* oldest to the newest new-key insertion.
C25_CircularlyContiguous ==
  LET n == Cardinality(Occupied(buffer)) IN
  /\ Occupied(buffer) = { (cursor + Size - j) % Size : j \in 1..n }
  /\ order = [j \in 1..n |-> (cursor + Size - n + j - 1) % Size]

C25_Witness ==
  /\ Size = MaxSize /\ Full /\ cursor = Size - 1 /\ ~pristine
  /\ order[1] = cursor /\ age[cursor] = Size - 1
  /\ last.op = "insert" /\ last.found = <<>>

----
\* The find-then-insert idiom of the example program and the README.

\* The effect of insert(key, val) on the slots and the cursor.
insert_effect(key, val) ==
  IF find(key) # <<>> THEN insert_update(key, val) ELSE replace_and_shift(key, val)

\* Process::memoized2a(input): find; on a hit return the value found, on a
\* miss compute the result, insert it and return it.  `result` is what the
\* call returns.
memoized2a(input, f, result) ==
  IF find(input) # <<>>
  THEN /\ result = find(input)[1]
       /\ UNCHANGED <<buffer, cursor>>
  ELSE /\ result = f[input]
       /\ insert_effect(input, f[input])

\* C23: find_or_insert_with is equivalent to the separate find-then-insert
\* idiom.  From every reachable state, for every key k and deterministic
\* compute f, find_or_insert_with(k, f) returns the value and leaves the slots
\* and the cursor that "if find(k) hits return its value, else v = f(k);
\* insert(k, v); return v" returns and leaves; the insert of the idiom is the
\* insert operation.
C23_EquivalentToFindThenInsert ==
  [][ /\ last'.op = "find_or_insert_with" =>
           /\ Len(last'.ret) = 1
           /\ memoized2a(last'.key, last'.f, last'.ret[1])
      /\ last'.op = "insert" => insert_effect(last'.key, last'.val)
    ]_vars

C23_Witness ==
  /\ last.op = "find_or_insert_with" /\ calls = <<last.key>>
  /\ Full /\ Size = MaxSize /\ cursor = 1 /\ last.slot = 0
  /\ buffer[0].key = last.key /\ last.ret = buffer[0].val

----
\* The operations on a memo_cache object given as a value: the record of its
\* slots and its cursor.

\* replace_and_shift(key, val) on the object c: the object afterwards.
replace_and_shift_on(c, key, val) ==
  [buffer |-> [c.buffer EXCEPT ![c.cursor] = [key |-> key, val |-> <<val>>]],
   cursor |-> (c.cursor + 1) % Size]

\* insert(key, val) on the object c: the object afterwards.
insert_on(c, key, val) ==
  LET found == find_if(c.buffer, key) IN
  IF found # Size
  THEN [c EXCEPT !.buffer[found].val = <<val>>]
  ELSE replace_and_shift_on(c, key, val)

\* find_or_insert_with(key, f) on the object c: the object afterwards.
find_or_insert_with_on(c, key, f) ==
  IF find_if(c.buffer, key) # Size THEN c ELSE replace_and_shift_on(c, key, f[key])

\* find_or_insert_with(key, f) on the object c: the value returned.
find_or_insert_with_ret(c, key, f) ==
  LET found == find_if(c.buffer, key) IN
  IF found # Size
  THEN c.buffer[found].val
  ELSE replace_and_shift_on(c, key, f[key]).buffer[c.cursor].val

\* The object c with its slots renumbered from its cursor: slot i holds what
\* the slot i places after the cursor of c holds, and the cursor is slot 0.
\* A freshly constructed cache is its own renumbering.
FromCursor(c) ==
  [buffer |-> [i \in Indices |-> c.buffer[(c.cursor + i) % Size]], cursor |-> 0]

\* C24: a cleared cache is observationally a fresh cache.  Whatever the state
\* clear() was called in, every sequence of insert, find_or_insert_with, find,
\* contains and size calls after it gives the results (presence, values,
\* evictions) that the same sequence gives on a freshly constructed cache of
\* the same capacity.  Step by step: clear() leaves the slots of a constructed
\* cache, which differs from the cleared one in the cursor only; and every
\* call returns on the cache as it is what it returns on the same cache
\* renumbered from its cursor, and leaves the same cache, so the same keys
\* with the same values, up to that renumbering.
C24_ClearedIsFresh ==
  [][ LET this == [buffer |-> buffer, cursor |-> cursor]
          that == FromCursor(this)
          next == [buffer |-> buffer', cursor |-> cursor']
          k == last'.key
      IN
      /\ last'.op = "clear" => FromCursor(next) = constructed
      /\ last'.op = "insert" =>
           FromCursor(next) = FromCursor(insert_on(that, k, last'.val))
      /\ last'.op = "find_or_insert_with" =>
           /\ FromCursor(next) = FromCursor(find_or_insert_with_on(that, k, last'.f))
           /\ last'.ret = find_or_insert_with_ret(that, k, last'.f)
      /\ last'.op = "find" => last'.ret = find_in(that.buffer, k) /\ next = this
      /\ last'.op = "contains" => last'.ret = contains_in(that.buffer, k) /\ next = this
      /\ last'.op = "size" => last'.ret = Cardinality(DOMAIN that.buffer) /\ next = this
    ]_vars

C24_Witness ==
  /\ Size = MaxSize /\ cursor = 0 /\ Occupied(buffer) = {Size - 1}
  /\ last.op = "find_or_insert_with" /\ calls = <<last.key>>
  /\ buffer[Size - 1] = [key |-> last.key, val |-> last.ret]

----
\* The variant of the cache whose slots are {K key; V val; bool empty = true;},
\* as a value: the record of its slots and its cursor.

\* Variant of the predicate that forgets the flag.
flagged_Matches_noflag(fSlot, key) == fSlot.key = key

\* The predicate of find and contains: !fSlot.empty && (fSlot.key == key).
flagged_Matches(fSlot, key) == (~fSlot.empty) /\ (fSlot.key = key)

\* std::ranges::find_if over the buffer: the first matching index, or Size (cend).
flagged_find_if(buf, key) ==
  IF \E i \in DOMAIN buf : flagged_Matches(buf[i], key)
  THEN CHOOSE i \in DOMAIN buf :
         flagged_Matches(buf[i], key) /\ \A j \in DOMAIN buf : flagged_Matches(buf[j], key) => i <= j
  ELSE Size

\* find(key): the optional reference to the value, as the optional value.
flagged_find(c, key) ==
  LET slot == flagged_find_if(c.buffer, key) IN
  IF slot # Size THEN <<c.buffer[slot].val>> ELSE <<>>

\* contains(key).
flagged_contains(c, key) == \E i \in DOMAIN c.buffer : flagged_Matches(c.buffer[i], key)

\* insert(key, val): the cache afterwards.
flagged_insert(c, key, val) ==
  LET found == flagged_find_if(c.buffer, key) IN
  IF found # Size
  THEN [c EXCEPT !.buffer[found].val = val]
  ELSE [buffer |-> [c.buffer EXCEPT ![c.cursor] = [key |-> key, val |-> val, empty |-> FALSE]],
        cursor |-> (c.cursor + 1) % Size]

\* clear(): buffer = {}, every slot value-initialised; the cursor is not assigned.
flagged_clear(c) ==
  [c EXCEPT !.buffer = [i \in Indices |-> [key |-> DefaultKey, val |-> DefaultVal, empty |-> TRUE]]]

\* Both caches constructed.  `buffer_t buffer;` has no initialiser: a cache
\* that is default-initialised keeps in key and val of its slots what the
\* memory held, here one pair (k, v) for all slots.
InitFlag ==
  /\ Construct
  /\ flagged \in { flagged_constructed(k, v) : k \in Keys, v \in Vals \cup {DefaultVal} }

\* The same call on both caches.  find_or_insert_with has no body in the flag
\* variant and is not called.
NextFlag ==
  \/ \E key \in Keys, val \in Vals :
       Insert(key, val) /\ flagged' = flagged_insert(flagged, key, val)
  \/ \E key \in Keys : Find(key) /\ UNCHANGED flagged
  \/ \E key \in Keys : Contains(key) /\ UNCHANGED flagged
  \/ Clear /\ flagged' = flagged_clear(flagged)

SpecFlag == InitFlag /\ [][NextFlag]_vars

\* C26: the two slot representations are equivalent.  After every sequence
\* of insert, find, contains and clear calls made on both, the cache with the
\* `empty` flag and the cache with the optional value give the same find and
\* contains result for every key and have the same cursor.
C26_RepresentationsEquivalent ==
  /\ flagged.cursor = cursor
  /\ \A k \in Keys : /\ flagged_find(flagged, k) = find(k)
                      /\ flagged_contains(flagged, k) = contains(k)

C26_Witness ==
  /\ Size = MaxSize /\ cursor = 1 /\ pristine
  /\ last.op = "find" /\ last.ret = <<>> /\ last.key # DefaultKey
  /\ flagged.buffer[cursor].empty /\ flagged.buffer[cursor].key = last.key
  /\ ~flagged.buffer[0].empty

====
